---- MODULE Spec2Model ----
(***************************************************************************)
(* Agent / Team / Project orchestration core of dawgpyl and the workflow   *)
(* graph derived from a team's edge_order.                                 *)
(*                                                                         *)
(* Agent names are sequences of tokens: the catalog name "responder" is    *)
(* <<"responder">> and f"{name}_reviewer" appends the token "_reviewer",   *)
(* so that the substring test and str.replace of the source are computed.  *)
(* A message is a record [kind, id, src]: kind is the Python shape the     *)
(* code branches on, id the model call that produced it, src the part of   *)
(* the response it was parsed from. An agent's prompt_exc is the exception *)
(* format_prompt raises for the agent's prompt configuration, "none" for   *)
(* the configurations of the catalog.                                      *)
(*                                                                         *)
(* fn_in and fn_out hold the arguments and the result of a function that   *)
(* is applied on its own (parse_agent_response, format_prompt, the methods  *)
(* of Task, Log and MessageLog); for a method fn_out is the object after   *)
(* the call.                                                               *)
(***************************************************************************)
EXTENDS Integers, Sequences, FiniteSets, TLC

VARIABLES cfg, phase, members, team, project, calls, exc, last_op, n_ok,
          n_intro, graph, pc, trace, fn_in, fn_out

vars == <<cfg, phase, members, team, project, calls, exc, last_op, n_ok,
          n_intro, graph, pc, trace, fn_in, fn_out>>

(***************************** bounds **************************************)
MaxMembers == 1
MaxChain == 2
MaxCalls == 2
MaxInputs == 6
MaxOutputs == 3
MaxFinished == 2
MaxIntroductions == 1
MaxParams == 2
MaxListed == 2
MaxLog == 5
MaxMessages == 3
MaxEvents == 14

(***************************** catalog *************************************)
\* AGENTS[name]["needs_review"]
AGENTS == [responder |-> TRUE, prompt_engineer |-> TRUE,
           director |-> FALSE, task_manager |-> FALSE, reviewer |-> FALSE]

CatalogNames == {"responder", "director"}

RECURSIVE SeqsUpTo(_, _)
SeqsUpTo(S, n) ==
    IF n = 0 THEN {<<>>}
    ELSE LET shorter == SeqsUpTo(S, n - 1)
         IN  shorter \cup {Append(q, x) : q \in shorter, x \in S}

Distinct(q) == \A i, j \in 1..Len(q) : i # j => q[i] # q[j]

\* TEAMS[name]: members and graph_config (entry, finish, edge_order)
TeamConfigs ==
    {[members |-> q, entry |-> q[1], finish |-> q[Len(q)], edge_order |-> q] :
        q \in {r \in SeqsUpTo(CatalogNames, MaxMembers) : Len(r) > 0 /\ Distinct(r)}}

\* Chains run through the workflow graph, shaped as TEAMS["small"]: every
\* member is listed in edge_order, from the entry to the finish member.
ChainNames == {"responder", "prompt_engineer", "director", "task_manager"}

Chains == {r \in SeqsUpTo(ChainNames, MaxChain) : Len(r) > 0 /\ Distinct(r)}

RunConfigs ==
    {[members |-> q, entry |-> q[1], finish |-> q[Len(q)], edge_order |-> q] :
        q \in Chains}

\* Every choice of entry and finish member, for the derivation of the edges.
GraphConfigs ==
    UNION {{[members |-> q, entry |-> q[e], finish |-> q[f], edge_order |-> q] :
               e \in 1..Len(q), f \in 1..Len(q)} : q \in Chains}

(***************************** names ***************************************)
END == <<"__end__">>
Idle == <<"__idle__">>
TeamName == "team"

ReviewerName(name) == Append(name, "_reviewer")
IsReviewerName(name) == \E i \in 1..Len(name) : name[i] = "_reviewer"
IsNotSuffix(t) == t # "_reviewer"
StripReviewer(name) == SelectSeq(name, IsNotSuffix)

(***************************** messages ************************************)
None == [kind |-> "None", id |-> 0, src |-> "none"]
NoEntry == [timestamp |-> 0, message |-> None]
TeamGreeting == [kind |-> "str", id |-> 0, src |-> "greet_team"]
ProjectGreeting == [kind |-> "str", id |-> 0, src |-> "greet_project"]

IsStr(m) == m.kind = "str"
IsDict(m) == m.kind \in {"dict_pass", "dict_fail", "dict_nokey"}
\* a test that finds the greeting in no message
HasProjectGreeting_never(m) == FALSE

\* "Hello! I'm on team" in message
HasProjectGreeting(m) == IsStr(m) /\ m.src = "greet_project"

\* no function call under way
NoCall == [kind |-> "none"]

\* MessageLog
NewMessageLog == [history |-> <<>>, last |-> NoEntry, last_message |-> None]

\* messages Python takes as false: None, "" and {}
EmptyText == [kind |-> "str", id |-> 0, src |-> "empty"]
EmptyDict == [kind |-> "dict_nokey", id |-> 0, src |-> "empty"]
Falsy(m) == m \in {None, EmptyText, EmptyDict}

\* update_last reading the first entry
UpdateLast_first(log) ==
    LET l == log.history[1]
    IN  [log EXCEPT !.last = l,
                    !.last_message = IF Falsy(l.message) THEN None
                                     ELSE l.message]

\* MessageLog.update_last: last_message = last["message"] or None
UpdateLast(log) ==
    LET l == log.history[Len(log.history)]
    IN  [log EXCEPT !.last = l,
                    !.last_message = IF Falsy(l.message) THEN None
                                     ELSE l.message]

AddMessage(log, m) ==
    UpdateLast([log EXCEPT !.history =
        Append(@, [timestamp |-> Len(@) + 1, message |-> m])])

(***************************** Log ******************************************)
\* Event(target, action).unpack(); the timestamp is the reading of a clock
\* that ticks with every event of the log
Event(target, action, now) ==
    [timestamp |-> now, target |-> target, event |-> action]

\* Log.update_last
LogUpdateLast(log) == [log EXCEPT !.last = log.history[Len(log.history)]]

\* Log.add keeping the entry of the latest event only
LogAdd_latest_only(log, target, action) ==
    LogUpdateLast([log EXCEPT !.history =
                      <<Event(target, action, Len(log.history))>>])

\* Log.add
LogAdd(log, target, action) ==
    LogUpdateLast([log EXCEPT !.history =
                      Append(@, Event(target, action, Len(log.history)))])

\* Log.__init__
NewLog ==
    LET history == <<Event("Log", <<"started">>, 0)>>
    IN  [history |-> history, last |-> history[Len(history)]]

(***************************** model responses *****************************)
\* full_response.content, by what json.loads and the .get() calls find in
\* it: json (it parses), object (it parses to a dict), response (the value
\* of the top-level "response" key: "None" absent, "falsy" a value Python
\* takes as false, else the shape of the value), type (the "type" key) and
\* properties (how far properties.response.description exists).
Content(j, o, r, ty, pr) ==
    [json |-> j, object |-> o, response |-> r, type |-> ty, properties |-> pr]

\* the responses a model call returns to invoke()
Contents == {
    Content(FALSE, FALSE, "None", "None", "None"),
    Content(TRUE, TRUE, "dict_pass", "None", "None"),
    Content(TRUE, TRUE, "dict_fail", "None", "None"),
    Content(TRUE, TRUE, "dict_nokey", "None", "None"),
    Content(TRUE, TRUE, "None", "object", "description") }

ModelFailure == Content(FALSE, FALSE, "raise", "raise", "raise")

\* every shape of content parse_agent_response tells apart
ResponseValues ==
    {"None", "falsy", "str", "dict_pass", "dict_fail", "dict_nokey"}
TypeValues == {"None", "string", "object", "array"}
PropertiesValues == {"None", "no_response", "no_description", "description"}

ParseContents ==
    {Content(FALSE, FALSE, "None", "None", "None"),
     Content(TRUE, FALSE, "None", "None", "None")} \cup
    {Content(TRUE, TRUE, r, ty, pr) :
        r \in ResponseValues, ty \in TypeValues, pr \in PropertiesValues}

ResponseFormats == {"json_object", "text"}

\* message = full_response.content
RawContent(id) == [kind |-> "str", id |-> id, src |-> "content"]

\* response_content.get("properties").get("response").get("description")
description(content, id) ==
    IF content.properties \in {"None", "no_response"} THEN RawContent(id)
    ELSE IF content.properties = "no_description" THEN None
    ELSE [kind |-> "str", id |-> id, src |-> "description"]

parse_agent_response(content, expected_response_type, id) ==
    IF expected_response_type = "json_object"
    THEN IF ~content.json \/ ~content.object THEN RawContent(id)
         ELSE IF content.response \notin {"None", "falsy"}
         THEN [kind |-> content.response, id |-> id, src |-> "response"]
         ELSE IF content.type \in {"string", "object"}
         THEN description(content, id)
         ELSE RawContent(id)
    ELSE RawContent(id)

(***************************** construction ********************************)
NewAgent(name, agent_config) ==
    [name |-> name, config |-> agent_config,
     needs_review |-> AGENTS[agent_config],
     project |-> FALSE, team |-> FALSE, teammates |-> <<>>,
     finished |-> FALSE, inputs |-> NewMessageLog, outputs |-> NewMessageLog,
     final_answer |-> None, status |-> "client initialized",
     prompt_exc |-> "none",
     log |-> LogAdd(LogAdd(NewLog, "Agent", <<"agent initialized">>),
                    "Agent", <<"client initialized">>)]

add_member(ms, agent2add) == Append(ms, NewAgent(<<agent2add>>, agent2add))

\* add_reviewer building the reviewer from the reviewed agent's own config
add_reviewer_own_config(ms, agent2review) ==
    Append(ms, NewAgent(ReviewerName(<<agent2review>>), agent2review))

\* Team.add_reviewer
add_reviewer(ms, agent2review) ==
    Append(ms, NewAgent(ReviewerName(<<agent2review>>), "reviewer"))

RECURSIVE assemble_from(_, _, _)
assemble_from(ms, config_members, i) ==
    IF i > Len(config_members) THEN ms
    ELSE LET added == add_member(ms, config_members[i])
         IN  assemble_from(
                 IF added[Len(added)].needs_review
                 THEN add_reviewer(added, config_members[i]) ELSE added,
                 config_members, i + 1)

assemble_team(config_members) == assemble_from(<<>>, config_members, 1)

NewTeam ==
    [name |-> TeamName, project |-> TRUE, members_finished |-> <<>>,
     goal |-> "None",
     inputs |-> [history |-> {}, last |-> <<>>],
     outputs |-> [history |-> {}, last |-> <<>>],
     final_answers |-> <<>>]

NewProject ==
    [inputs |-> [history |-> {}, last |-> {}],
     outputs |-> [history |-> {}, last |-> {}],
     final_answers |-> {}]

fetch_member_names(ms) == [i \in 1..Len(ms) |-> ms[i].name]

(***************************** program state *******************************)
\* The operations below are functions of the bundle
\* s = [members, team, project, calls, exc]; exc names the exception that
\* left the operation, "none" while it is running normally.
State == [members |-> members, team |-> team, project |-> project,
          calls |-> calls, exc |-> "none"]

\* F applied to the value of v, which is computed once
Strict(v, F(_)) == CHOOSE r \in {F(x) : x \in {v}} : TRUE

Put(f, k, v) == [x \in (DOMAIN f) \cup {k} |-> IF x = k THEN v ELSE f[x]]
Has(f, k) == k \in DOMAIN f

\* Agent.log_agent
log_agent(a, event_description) ==
    [a EXCEPT !.log = LogAdd(@, "Agent", event_description)]

\* change_status that starts the log anew
change_status_new_log(a, new_status) ==
    [a EXCEPT !.status = new_status,
              !.log = LogAdd(NewLog, "Agent", <<new_status>>)]

\* Agent.change_status
change_status(a, new_status) ==
    log_agent([a EXCEPT !.status = new_status], <<new_status>>)

\* check_finished latching on any message that has the pass_review key
check_finished_any_verdict(s, i) ==
    LET a == s.members[i]
        m == a.inputs.last.message
    IN  IF a.inputs.last = NoEntry THEN s
        ELSE IF ~IsDict(m) THEN [s EXCEPT !.exc = "TypeError"]
        ELSE IF m.kind = "dict_nokey" THEN s
        ELSE IF a.outputs.last = NoEntry THEN s
        ELSE [s EXCEPT
                !.members[i] = [change_status(a, "finished") EXCEPT
                                   !.final_answer = a.outputs.last.message,
                                   !.finished = TRUE],
                !.team.members_finished = Append(@, a.name)]

\* check_finished assigning the verdict to the flag instead of latching it
check_finished_assign(s, i) ==
    LET a == s.members[i]
        m == a.inputs.last.message
        unset == [s EXCEPT !.members[i].finished = FALSE]
    IN  IF a.inputs.last = NoEntry THEN unset
        ELSE IF ~IsDict(m) THEN [s EXCEPT !.exc = "TypeError"]
        ELSE IF m.kind # "dict_pass" THEN unset
        ELSE IF a.outputs.last = NoEntry THEN unset
        ELSE [s EXCEPT
                !.members[i] = [change_status(a, "finished") EXCEPT
                                   !.final_answer = a.outputs.last.message,
                                   !.finished = TRUE],
                !.team.members_finished = Append(@, a.name)]

\* check_finished taking the reviewer's verdict as the final answer
check_finished_verdict_answer(s, i) ==
    LET a == s.members[i]
        m == a.inputs.last.message
    IN  IF a.inputs.last = NoEntry THEN s
        ELSE IF ~IsDict(m) THEN [s EXCEPT !.exc = "TypeError"]
        ELSE IF m.kind # "dict_pass" THEN s
        ELSE [s EXCEPT
                !.members[i] = [change_status(a, "finished") EXCEPT
                                   !.final_answer = m,
                                   !.finished = TRUE],
                !.team.members_finished = Append(@, a.name)]

\* check_finished assigning the list of finished members instead of appending
check_finished_reset_list(s, i) ==
    LET a == s.members[i]
        m == a.inputs.last.message
    IN  IF a.inputs.last = NoEntry THEN s
        ELSE IF ~IsDict(m) THEN [s EXCEPT !.exc = "TypeError"]
        ELSE IF m.kind # "dict_pass" THEN s
        ELSE IF a.outputs.last = NoEntry THEN s
        ELSE [s EXCEPT
                !.members[i] = [change_status(a, "finished") EXCEPT
                                   !.final_answer = a.outputs.last.message,
                                   !.finished = TRUE],
                !.team.members_finished = <<a.name>>]

\* check_finished latching without listing the agent as finished
check_finished_unlisted(s, i) ==
    LET a == s.members[i]
        m == a.inputs.last.message
    IN  IF a.inputs.last = NoEntry THEN s
        ELSE IF ~IsDict(m) THEN [s EXCEPT !.exc = "TypeError"]
        ELSE IF m.kind # "dict_pass" THEN s
        ELSE IF a.outputs.last = NoEntry THEN s
        ELSE [s EXCEPT
                !.members[i] = [change_status(a, "finished") EXCEPT
                                   !.final_answer = a.outputs.last.message,
                                   !.finished = TRUE]]

\* Agent.check_finished
check_finished(s, i) ==
    LET a == s.members[i]
        m == a.inputs.last.message
    IN  IF a.inputs.last = NoEntry THEN s
        ELSE IF ~IsDict(m) THEN [s EXCEPT !.exc = "TypeError"]
        ELSE IF m.kind # "dict_pass" THEN s
        ELSE IF a.outputs.last = NoEntry THEN s
        ELSE [s EXCEPT
                !.members[i] = [change_status(a, "finished") EXCEPT
                                   !.final_answer = a.outputs.last.message,
                                   !.finished = TRUE],
                !.team.members_finished = Append(@, a.name)]

\* fetch_content_for_review letting the KeyError of a missing entry out
fetch_content_for_review_raising(s, i) ==
    LET a == s.members[i]
        agent2review == StripReviewer(a.name)
    IN  IF ~IsReviewerName(a.name) THEN s
        ELSE IF Has(s.team.outputs.last, agent2review)
        THEN [s EXCEPT !.members[i].inputs =
                 AddMessage(@, s.team.outputs.last[agent2review].message)]
        ELSE [s EXCEPT !.exc = "KeyError"]

\* Agent.fetch_content_for_review
fetch_content_for_review(s, i) ==
    LET a == s.members[i]
        agent2review == StripReviewer(a.name)
    IN  IF IsReviewerName(a.name) /\ Has(s.team.outputs.last, agent2review)
        THEN [s EXCEPT !.members[i].inputs =
                 AddMessage(@, s.team.outputs.last[agent2review].message)]
        ELSE s

\* Team.fetch_updates, the loop body for one member
fetch_member_updates(t0, member) ==
    LET t1 == IF Len(member.inputs.history) > 0
              THEN [t0 EXCEPT !.inputs.history = @ \cup {member.name}]
              ELSE t0
        t2 == IF member.inputs.last # NoEntry
              THEN [t1 EXCEPT !.inputs.last =
                       Put(@, member.name, member.inputs.last)]
              ELSE t1
        t3 == IF Len(member.outputs.history) > 0
              THEN [t2 EXCEPT !.outputs.history = @ \cup {member.name}]
              ELSE t2
        t4 == IF member.outputs.last # NoEntry
              THEN [t3 EXCEPT !.outputs.last =
                       Put(@, member.name, member.outputs.last)]
              ELSE t3
    IN  IF member.final_answer # None
        THEN [t4 EXCEPT !.final_answers =
                 Put(@, member.name, member.final_answer)]
        ELSE t4

RECURSIVE fetch_updates_from(_, _)
fetch_updates_from(state, i) ==
    LET Body(s) ==
            IF i > Len(s.members) THEN s
            ELSE fetch_updates_from(
                     [s EXCEPT !.team = fetch_member_updates(@, s.members[i])],
                     i + 1)
    IN  Strict(state, Body)

\* Team.fetch_updates
fetch_updates(s) == fetch_updates_from(s, 1)

RECURSIVE push_reviews_from(_, _)
push_reviews_from(state, i) ==
    LET Body(s) ==
            IF i > Len(s.members) THEN s
            ELSE LET reviewer == ReviewerName(s.members[i].name)
                 IN  IF /\ Has(s.team.outputs.last, reviewer)
                        /\ s.team.outputs.last[reviewer].message = None
                     THEN [s EXCEPT !.exc = "TypeError"]
                     ELSE IF /\ Has(s.team.outputs.last, reviewer)
                             /\ ~HasProjectGreeting(
                                    s.team.outputs.last[reviewer].message)
                     THEN push_reviews_from(
                              [s EXCEPT !.members[i].inputs = AddMessage(@,
                                  s.team.outputs.last[reviewer].message)],
                              i + 1)
                     ELSE push_reviews_from(s, i + 1)
    IN  Strict(state, Body)

\* Team.update that pushes no review
push_reviews_skip(s) == s

\* Team.push_reviews
push_reviews(s) == push_reviews_from(s, 1)

\* Team.push_team_updates
push_team_updates(state) ==
    LET Body(s) ==
            [s EXCEPT !.members = [i \in 1..Len(s.members) |->
                                      [s.members[i] EXCEPT !.team = TRUE]]]
    IN  Strict(state, Body)

\* Team.update
team_update(state) ==
    LET Push(s) == IF s.exc # "none" THEN s ELSE push_team_updates(s)
        Body(s) ==
            IF s.exc # "none" THEN s
            ELSE Strict(push_reviews(fetch_updates(s)), Push)
    IN  Strict(state, Body)

\* Project.push_project_updates
push_project_updates(state) ==
    LET Body(s) ==
            [s EXCEPT !.team.project = TRUE,
                      !.members = [i \in 1..Len(s.members) |->
                                      [s.members[i] EXCEPT !.project = TRUE]]]
    IN  Strict(state, Body)

\* Project.update that merges the message views only
fetch_team_views_no_answers(p0, t) ==
    LET p1 == IF t.inputs.history # {}
              THEN [p0 EXCEPT !.inputs.history = @ \cup {t.name}] ELSE p0
        p2 == IF DOMAIN t.inputs.last # {}
              THEN [p1 EXCEPT !.inputs.last = @ \cup {t.name}] ELSE p1
        p3 == IF t.outputs.history # {}
              THEN [p2 EXCEPT !.outputs.history = @ \cup {t.name}] ELSE p2
    IN  IF DOMAIN t.outputs.last # {}
        THEN [p3 EXCEPT !.outputs.last = @ \cup {t.name}] ELSE p3

\* Project.update, the views fetched from one team
fetch_team_views(p0, t) ==
    LET p1 == IF t.inputs.history # {}
              THEN [p0 EXCEPT !.inputs.history = @ \cup {t.name}] ELSE p0
        p2 == IF DOMAIN t.inputs.last # {}
              THEN [p1 EXCEPT !.inputs.last = @ \cup {t.name}] ELSE p1
        p3 == IF t.outputs.history # {}
              THEN [p2 EXCEPT !.outputs.history = @ \cup {t.name}] ELSE p2
        p4 == IF DOMAIN t.outputs.last # {}
              THEN [p3 EXCEPT !.outputs.last = @ \cup {t.name}] ELSE p3
    IN  IF DOMAIN t.final_answers # {}
        THEN [p4 EXCEPT !.final_answers = @ \cup {t.name}] ELSE p4

\* Project.update
project_update(state) ==
    LET Fetch(s) ==
            IF s.exc # "none" THEN s
            ELSE push_project_updates(
                     [s EXCEPT !.project = fetch_team_views(@, s.team)])
        Body(s) == IF s.exc # "none" THEN s ELSE Strict(team_update(s), Fetch)
    IN  Strict(state, Body)

\* self.project.update() in Agent.invoke: the agent's project is None until
\* a Project has set it
agent_project_update(state, i) ==
    LET Body(s) ==
            IF s.exc # "none" THEN s
            ELSE IF ~s.members[i].project
            THEN [s EXCEPT !.exc = "AttributeError"]
            ELSE project_update(s)
    IN  Strict(state, Body)

\* Team.request_introductions
team_request_introductions(s) ==
    [s EXCEPT !.members = [i \in 1..Len(s.members) |->
        [s.members[i] EXCEPT !.outputs = AddMessage(@, TeamGreeting),
                             !.teammates = fetch_member_names(s.members)]]]

\* Project.request_introductions
project_request_introductions(state) ==
    LET Body(s) ==
            [s EXCEPT !.members = [i \in 1..Len(s.members) |->
                [s.members[i] EXCEPT
                    !.project = TRUE,
                    !.teammates = fetch_member_names(s.members),
                    !.outputs = AddMessage(@, ProjectGreeting)]]]
    IN  Strict(state, Body)

\* Agent.invoke: an agent that needs no review is finished by its response
finish_if_unreviewed_skip(a) == a

finish_if_unreviewed(a) ==
    IF ~a.needs_review
    THEN [change_status(a, "finished") EXCEPT
             !.final_answer = a.outputs.last.message,
             !.finished = TRUE]
    ELSE a

\* invoke catching the error of the model call and carrying on
respond_absorbing(s, i, content) ==
    LET Store(a) ==
            [s EXCEPT !.members[i] =
                finish_if_unreviewed(change_status(a, "responded"))]
    IN  IF content = ModelFailure THEN s
        ELSE Strict(log_agent(log_agent(
                        [s.members[i] EXCEPT !.outputs = AddMessage(@,
                            parse_agent_response(content, "json_object",
                                                 s.calls))],
                        <<"message", s.calls>>), <<"tokens">>),
                    Store)

\* Agent.invoke, from the model call to the end of the unfinished branch
respond(s, i, content) ==
    LET Store(a) ==
            [s EXCEPT !.members[i] =
                finish_if_unreviewed(change_status(a, "responded"))]
    IN  IF content = ModelFailure THEN [s EXCEPT !.exc = "ModelError"]
        ELSE Strict(log_agent(log_agent(
                        [s.members[i] EXCEPT !.outputs = AddMessage(@,
                            parse_agent_response(content, "json_object",
                                                 s.calls))],
                        <<"message", s.calls>>), <<"tokens">>),
                    Store)

\* invoke fetching the submission from the views as they are
invoke_model_stale_views(state, i, content) ==
    LET Respond(s) == respond(s, i, content)
        Call(s) ==
            IF s.members[i].prompt_exc # "none"
            THEN [s EXCEPT !.members[i] = change_status(@, "invoked"),
                           !.exc = s.members[i].prompt_exc]
            ELSE Strict([s EXCEPT !.members[i] = change_status(@, "invoked"),
                                  !.calls = @ + 1],
                        Respond)
    IN  Strict(fetch_content_for_review(state, i), Call)

\* invoke rendering the prompt only after the model has answered
invoke_model_late_prompt(state, i, content) ==
    LET Render(s) ==
            IF s.exc = "none" /\ s.members[i].prompt_exc # "none"
            THEN [s EXCEPT !.exc = s.members[i].prompt_exc]
            ELSE s
        Respond(s) == Strict(respond(s, i, content), Render)
        Call(s) ==
            Strict([s EXCEPT !.members[i] = change_status(@, "invoked"),
                             !.calls = @ + 1],
                   Respond)
        Body(s) ==
            IF s.exc # "none" THEN s
            ELSE Strict(fetch_content_for_review(s, i), Call)
    IN  Strict(agent_project_update(team_update(state), i), Body)

\* Agent.invoke, the branch taken while the agent is not finished
invoke_model(state, i, content) ==
    LET Respond(s) == respond(s, i, content)
        Call(s) ==
            IF s.members[i].prompt_exc # "none"
            THEN [s EXCEPT !.members[i] = change_status(@, "invoked"),
                           !.exc = s.members[i].prompt_exc]
            ELSE Strict([s EXCEPT !.members[i] = change_status(@, "invoked"),
                                  !.calls = @ + 1],
                        Respond)
        Body(s) ==
            IF s.exc # "none" THEN s
            ELSE Strict(fetch_content_for_review(s, i), Call)
    IN  Strict(agent_project_update(team_update(state), i), Body)

\* invoke that calls the model without looking at the finished flag
invoke_unguarded(state, i, content) ==
    LET Branch(s) ==
            IF s.exc # "none" THEN s ELSE invoke_model(s, i, content)
        Finish(s) == agent_project_update(team_update(Branch(s)), i)
    IN  Strict(check_finished(state, i), Finish)

\* Agent.invoke
invoke(state, i, content) ==
    LET Branch(s) ==
            IF s.exc # "none" \/ s.members[i].finished THEN s
            ELSE invoke_model(s, i, content)
        Finish(s) == agent_project_update(team_update(Branch(s)), i)
    IN  Strict(check_finished(state, i), Finish)

\* Project.add_team: Team.__init__ of the new team
add_team(c) ==
    team_update(
        [members |-> assemble_team(c.members), team |-> NewTeam,
         project |-> NewProject, calls |-> 0, exc |-> "none"])

\* Project.__init__ (with Team.__init__ of its one team)
project_init(c) ==
    project_update(project_request_introductions(team_update(
        [members |-> assemble_team(c.members), team |-> NewTeam,
         project |-> NewProject, calls |-> 0, exc |-> "none"])))

(***************************** workflow graph ******************************)
Range(q) == {q[i] : i \in 1..Len(q)}

NoGraph == [nodes |-> {}, edges |-> {}, conditional |-> <<>>,
            entry_point |-> Idle, finish_point |-> Idle]

\* next_member that never advances along edge_order
next_member_end(edge_order, edge_idx) == END

\* next_member of iteration edge_idx
next_member(edge_order, edge_idx) ==
    IF edge_idx < Len(edge_order) THEN <<edge_order[edge_idx + 1]>> ELSE END

\* set_finish_point that ignores needs_review
finish_point_member(c) == <<c.finish>>

\* set_finish_point
finish_point(c) ==
    IF AGENTS[c.finish] THEN ReviewerName(<<c.finish>>) ELSE <<c.finish>>

\* add_edge calls that do not exempt the reviewer of the finish member
member_edges_no_exemption(c, edge_idx) ==
    LET member_name == c.edge_order[edge_idx]
        next == next_member(c.edge_order, edge_idx)
    IN  IF AGENTS[member_name]
        THEN {<<ReviewerName(<<member_name>>), next>>}
        ELSE {<<<<member_name>>, next>>}

\* add_edge calls with an edge from a reviewed member to its reviewer
member_edges_review_edge(c, edge_idx) ==
    LET member_name == c.edge_order[edge_idx]
        next == next_member(c.edge_order, edge_idx)
    IN  IF AGENTS[member_name]
        THEN {<<<<member_name>>, ReviewerName(<<member_name>>)>>} \cup
             (IF member_name # c.finish
              THEN {<<ReviewerName(<<member_name>>), next>>}
              ELSE {})
        ELSE {<<<<member_name>>, next>>}

\* the add_edge calls of iteration edge_idx
member_edges(c, edge_idx) ==
    LET member_name == c.edge_order[edge_idx]
        next == next_member(c.edge_order, edge_idx)
    IN  IF AGENTS[member_name]
        THEN IF member_name # c.finish
             THEN {<<ReviewerName(<<member_name>>), next>>}
             ELSE {}
        ELSE {<<<<member_name>>, next>>}

\* add_conditional_edges calls that send an unfinished member to itself
conditional_edges_self(c) ==
    LET reviewed == {i \in 1..Len(c.edge_order) : AGENTS[c.edge_order[i]]}
        idx(n) == CHOOSE i \in reviewed : <<c.edge_order[i]>> = n
    IN  [n \in {<<c.edge_order[i]>> : i \in reviewed} |->
            [True |-> next_member(c.edge_order, idx(n)),
             False |-> n]]

\* the add_conditional_edges calls
conditional_edges(c) ==
    LET reviewed == {i \in 1..Len(c.edge_order) : AGENTS[c.edge_order[i]]}
        idx(n) == CHOOSE i \in reviewed : <<c.edge_order[i]>> = n
    IN  [n \in {<<c.edge_order[i]>> : i \in reviewed} |->
            [True |-> next_member(c.edge_order, idx(n)),
             False |-> ReviewerName(n)]]

create_team_graph(c, ms) ==
    [nodes |-> {ms[i].name : i \in 1..Len(ms)},
     entry_point |-> <<c.entry>>,
     finish_point |-> finish_point(c),
     edges |-> {<<finish_point(c), END>>} \cup
               UNION {member_edges(c, i) : i \in 1..Len(c.edge_order)},
     conditional |-> conditional_edges(c)]

\* check_member_finished
check_member_finished(t, member_name) ==
    IF member_name \in Range(t.members_finished) THEN "True" ELSE "False"

\* Team.get_member_index
get_member_index(ms, member_name) ==
    CHOOSE i \in 1..Len(ms) :
        /\ ms[i].name = member_name
        /\ \A j \in 1..(i - 1) : ms[j].name # member_name

\* check_finished testing the latch against None
team_check_finished_not_none(ms, member_name) ==
    IF ms[get_member_index(ms, member_name)].finished \in BOOLEAN
    THEN "True" ELSE "False"

\* Team.check_finished
team_check_finished(ms, member_name) ==
    IF ms[get_member_index(ms, member_name)].finished
    THEN "True" ELSE "False"

\* nodes scheduled after a node has run, by what its predicate returns
Successors(g, node, finished) ==
    {e[2] : e \in {d \in g.edges : d[1] = node}} \cup
    (IF node \in DOMAIN g.conditional
     THEN {g.conditional[node][finished]}
     ELSE {})

\* nodes scheduled after a node has run
Targets(g, t, node) == Successors(g, node, check_member_finished(t, node))

(***************************** actions *************************************)
NoOp == [op |-> "none", agent |-> 0]

InBounds(s) ==
    /\ s.calls <= MaxCalls
    /\ Len(s.team.members_finished) <= MaxFinished
    /\ \A i \in 1..Len(s.members) :
          /\ Len(s.members[i].inputs.history) <= MaxInputs
          /\ Len(s.members[i].outputs.history) <= MaxOutputs
          /\ Len(s.members[i].log.history) <= MaxEvents

Commit(s, op) ==
    /\ InBounds(s)
    /\ members' = s.members
    /\ team' = s.team
    /\ project' = s.project
    /\ calls' = s.calls
    /\ exc' = s.exc
    /\ last_op' = op

Init ==
    /\ cfg \in TeamConfigs
    /\ phase = "new"
    /\ members = <<>>
    /\ team = NewTeam
    /\ project = NewProject
    /\ calls = 0
    /\ exc = "none"
    /\ last_op = NoOp
    /\ n_ok = <<>>
    /\ n_intro = 0
    /\ graph = NoGraph
    /\ pc = Idle
    /\ trace = <<>>
    /\ fn_in = NoCall
    /\ fn_out = NoCall

ProjectInit ==
    /\ phase = "new"
    /\ \E s \in {project_init(cfg)} :
          /\ Commit(s, [NoOp EXCEPT !.op = "Project"])
          /\ n_ok' = [i \in 1..Len(s.members) |-> 0]
    /\ phase' = "ready"
    /\ UNCHANGED <<fn_in, fn_out, cfg, n_intro, graph, pc, trace>>

Invoke(i) ==
    /\ phase = "ready"
    /\ \E content \in Contents \cup {ModelFailure} :
       \E s \in {invoke(State, i, content)} :
          /\ Commit(s, [op |-> "invoke", agent |-> i])
          /\ n_ok' = [n_ok EXCEPT ![i] =
                         IF s.exc = "none" /\ @ < 2 THEN @ + 1 ELSE @]
    /\ UNCHANGED <<fn_in, fn_out, cfg, phase, n_intro, graph, pc, trace>>

TeamUpdate ==
    /\ phase = "ready"
    /\ \E s \in {team_update(State)} :
          Commit(s, [NoOp EXCEPT !.op = "Team.update"])
    /\ UNCHANGED <<fn_in, fn_out, cfg, phase, n_ok, n_intro, graph, pc, trace>>

ProjectUpdate ==
    /\ phase = "ready"
    /\ \E s \in {project_update(State)} :
          Commit(s, [NoOp EXCEPT !.op = "Project.update"])
    /\ UNCHANGED <<fn_in, fn_out, cfg, phase, n_ok, n_intro, graph, pc, trace>>

TeamRequestIntroductions ==
    /\ phase = "ready"
    /\ n_intro < MaxIntroductions
    /\ n_intro' = n_intro + 1
    /\ \E s \in {team_request_introductions(State)} :
          Commit(s, [NoOp EXCEPT !.op = "Team.request_introductions"])
    /\ UNCHANGED <<fn_in, fn_out, cfg, phase, n_ok, graph, pc, trace>>

ProjectRequestIntroductions ==
    /\ phase = "ready"
    /\ n_intro < MaxIntroductions
    /\ n_intro' = n_intro + 1
    /\ \E s \in {project_request_introductions(State)} :
          Commit(s, [NoOp EXCEPT !.op = "Project.request_introductions"])
    /\ UNCHANGED <<fn_in, fn_out, cfg, phase, n_ok, graph, pc, trace>>

\* any sequence of invoke(), Team.update() and Project.update() calls
Next ==
    \/ ProjectInit
    \/ \E i \in 1..Len(members) : Invoke(i)
    \/ TeamUpdate
    \/ ProjectUpdate

Spec == Init /\ [][Next]_vars

\* the same with request_introductions() called again after construction
NextIntroductions ==
    \/ Next
    \/ TeamRequestIntroductions
    \/ ProjectRequestIntroductions

SpecIntroductions == Init /\ [][NextIntroductions]_vars

\* Project.add_team() called on a Project after its construction: the new
\* team is not introduced, and its members have no project before the next
\* Project.update()
ProjectAddTeam ==
    /\ phase = "new"
    /\ \E s \in {add_team(cfg)} :
          /\ Commit(s, [NoOp EXCEPT !.op = "Project.add_team"])
          /\ n_ok' = [i \in 1..Len(s.members) |-> 0]
    /\ phase' = "ready"
    /\ UNCHANGED <<fn_in, fn_out, cfg, n_intro, graph, pc, trace>>

NextAddTeam ==
    \/ ProjectAddTeam
    \/ \E i \in 1..Len(members) : Invoke(i)
    \/ TeamUpdate
    \/ ProjectUpdate

SpecAddTeam == Init /\ [][NextAddTeam]_vars

(***************************** workflow run ********************************)
Rest == /\ phase = "new" /\ members = <<>> /\ team = NewTeam
        /\ project = NewProject /\ calls = 0 /\ exc = "none"
        /\ last_op = NoOp /\ n_ok = <<>> /\ n_intro = 0
        /\ graph = NoGraph /\ pc = Idle /\ trace = <<>>
        /\ fn_in = NoCall /\ fn_out = NoCall

InitRun == cfg \in RunConfigs /\ Rest

InitGraph == cfg \in GraphConfigs /\ Rest

\* run_team_workflow: team.goal and create_team_graph
CreateTeamGraph ==
    /\ phase = "ready"
    /\ phase' = "graph"
    /\ team' = [team EXCEPT !.goal = "project_goal"]
    /\ graph' = create_team_graph(cfg, members)
    /\ UNCHANGED <<fn_in, fn_out, cfg, members, project, calls, exc, last_op, n_ok,
                   n_intro, pc, trace>>

\* run_team_workflow: compile and enter the stream at the entry point
StartStream ==
    /\ phase = "graph"
    /\ phase' = "running"
    /\ pc' = graph.entry_point
    /\ UNCHANGED <<fn_in, fn_out, cfg, members, team, project, calls, exc, last_op, n_ok,
                   n_intro, graph, trace>>

\* one step of the stream: the node's agent is invoked, then the edges
\* leaving the node select the next node
RunStep ==
    /\ phase = "running"
    /\ pc \in graph.nodes
    /\ exc = "none"
    /\ \E content \in Contents \cup {ModelFailure} :
       \E s \in {invoke(State, get_member_index(members, pc), content)} :
          /\ members' = s.members
          /\ team' = s.team
          /\ project' = s.project
          /\ calls' = s.calls
          /\ exc' = s.exc
          /\ last_op' = [op |-> "invoke",
                         agent |-> get_member_index(members, pc)]
          /\ n_ok' = [n_ok EXCEPT ![get_member_index(members, pc)] =
                         IF s.exc = "none" /\ @ < 2 THEN @ + 1 ELSE @]
          /\ trace' = Append(trace, pc)
          /\ IF s.exc # "none" THEN pc' = pc
             ELSE LET nexts == Targets(graph, s.team, pc) \ {END}
                  IN  IF nexts = {} THEN pc' = END
                      ELSE pc' \in nexts
    /\ UNCHANGED <<fn_in, fn_out, cfg, phase, n_intro, graph>>

NextRun == ProjectInit \/ CreateTeamGraph \/ StartStream \/ RunStep

SpecRun == InitRun /\ [][NextRun]_vars

NextGraph == ProjectInit \/ CreateTeamGraph

SpecGraph == InitGraph /\ [][NextGraph]_vars

(***************************** parse_agent_response ************************)
NoConfig == [members |-> <<>>, entry |-> "None", finish |-> "None",
             edge_order |-> <<>>]

InitParse ==
    /\ cfg = NoConfig
    /\ phase = "parse"
    /\ members = <<>> /\ team = NewTeam /\ project = NewProject
    /\ calls = 0 /\ exc = "none" /\ last_op = NoOp /\ n_ok = <<>>
    /\ n_intro = 0 /\ graph = NoGraph /\ pc = Idle /\ trace = <<>>
    /\ fn_in \in [kind : {"parse_agent_response"}, content : ParseContents,
                  expected_response_type : ResponseFormats]
    /\ fn_out = NoCall

\* message = parse_agent_response(full_response, expected_response_type)
ParseAgentResponse ==
    /\ phase = "parse"
    /\ fn_out = NoCall
    /\ fn_out' = parse_agent_response(fn_in.content,
                      fn_in.expected_response_type, 1)
    /\ UNCHANGED <<fn_in, cfg, phase, members, team, project, calls, exc,
                   last_op, n_ok, n_intro, graph, pc, trace>>

NextParse == ParseAgentResponse

SpecParse == InitParse /\ [][NextParse]_vars

(***************************** format_prompt *******************************)
\* the program variables of a behaviour that only applies a function
Apart(name) ==
    /\ cfg = NoConfig
    /\ phase = name
    /\ members = <<>> /\ team = NewTeam /\ project = NewProject
    /\ calls = 0 /\ exc = "none" /\ last_op = NoOp /\ n_ok = <<>>
    /\ n_intro = 0 /\ graph = NoGraph /\ pc = Idle /\ trace = <<>>

Untouched ==
    UNCHANGED <<cfg, phase, members, team, project, calls, exc, last_op,
                n_ok, n_intro, graph, pc, trace>>

\* entries of prompt_params, token by token
PromptParams == {<<"self", ".", "team", ".", "goal">>,
                 <<"self", ".", "inputs", ".", "last_message">>}

\* strip_self_refs: self_reference.replace(".", "_")
strip_self_refs(self_reference) ==
    [k \in 1..Len(self_reference) |->
        IF self_reference[k] = "." THEN "_" ELSE self_reference[k]]

\* what eval(arg) gives: a value by its Python type, empty ("" [] {} None
\* 0 False) or not, or no value when the reference does not resolve
PromptValue(ty, e) == [type |-> ty, empty |-> e]
PromptValues ==
    {PromptValue(ty, e) : ty \in {"str", "list", "dict", "int", "bool"},
                          e \in BOOLEAN} \cup {PromptValue("NoneType", TRUE)}
Unresolved == [type |-> "unresolved", empty |-> TRUE]
NoneLiteral == [type |-> "str", empty |-> FALSE, literal |-> "None"]

\* the keys of empty_data_types
EmptyDataTypes == {"str", "list", "dict", "NoneType"}

\* fetch_prompt_arg_vals, from entry k on: vals is prompt_arg_vals
RECURSIVE fetch_prompt_arg_vals_from(_, _, _, _)
fetch_prompt_arg_vals_from(prompt_params, env, k, vals) ==
    IF k > Len(prompt_params) THEN [exc |-> "none", vals |-> vals]
    ELSE LET arg == prompt_params[k]
             arg_val == env[arg]
         IN  IF arg_val = Unresolved
             THEN [exc |-> "AttributeError", vals |-> vals]
             ELSE IF arg_val.type \notin EmptyDataTypes
             THEN [exc |-> "KeyError", vals |-> vals]
             ELSE fetch_prompt_arg_vals_from(prompt_params, env, k + 1,
                      Put(vals, strip_self_refs(arg),
                          IF arg_val.empty THEN NoneLiteral ELSE arg_val))

\* Agent.fetch_prompt_arg_vals
fetch_prompt_arg_vals(prompt_params, env) ==
    fetch_prompt_arg_vals_from(prompt_params, env, 1, <<>>)

\* Agent.format_prompt: the prompt is the template with every placeholder
\* replaced by the value bound to its name
format_prompt(prompt_params, env, template) ==
    LET bound == fetch_prompt_arg_vals(prompt_params, env)
    IN  IF bound.exc # "none"
        THEN [exc |-> bound.exc, vals |-> bound.vals, prompt |-> <<>>]
        ELSE IF ~(template \subseteq DOMAIN bound.vals)
        THEN [exc |-> "KeyError", vals |-> bound.vals, prompt |-> <<>>]
        ELSE [exc |-> "none", vals |-> bound.vals,
              prompt |-> [name \in template |-> bound.vals[name]]]

InitPrompt ==
    /\ Apart("format_prompt")
    /\ fn_in \in [kind : {"format_prompt"},
                 prompt_params : SeqsUpTo(PromptParams, MaxParams),
                 env : [PromptParams -> PromptValues \cup {Unresolved}],
                 template : SUBSET {strip_self_refs(a) : a \in PromptParams}]
    /\ fn_out = NoCall

\* self.format_prompt()
FormatPrompt ==
    /\ phase = "format_prompt"
    /\ fn_out = NoCall
    /\ fn_out' = format_prompt(fn_in.prompt_params, fn_in.env, fn_in.template)
    /\ UNCHANGED fn_in
    /\ Untouched

NextPrompt == FormatPrompt

SpecPrompt == InitPrompt /\ [][NextPrompt]_vars

\* prompt configurations that format_prompt cannot render: an entry of
\* prompt_params that does not resolve, a placeholder without bound value
BrokenPrompts ==
    LET goal == <<"self", ".", "team", ".", "goal">>
        message == <<"self", ".", "inputs", ".", "last_message">>
        text == PromptValue("str", FALSE)
    IN  {[prompt_params |-> <<goal, message>>,
          env |-> [a \in PromptParams |->
                      IF a = message THEN Unresolved ELSE text],
          template |-> {strip_self_refs(goal)}],
         [prompt_params |-> <<goal>>,
          env |-> [a \in PromptParams |-> text],
          template |-> {strip_self_refs(goal), strip_self_refs(message)}]}

\* Project.__init__ for a team one of whose agents has a broken prompt
\* configuration
ProjectInitMisconfigured ==
    /\ phase = "new"
    /\ \E s \in {project_init(cfg)} :
       \E k \in 1..Len(s.members), b \in BrokenPrompts :
          /\ Commit([s EXCEPT !.members[k].prompt_exc =
                        format_prompt(b.prompt_params, b.env, b.template).exc],
                    [NoOp EXCEPT !.op = "Project"])
          /\ n_ok' = [i \in 1..Len(s.members) |-> 0]
    /\ phase' = "ready"
    /\ UNCHANGED <<fn_in, fn_out, cfg, n_intro, graph, pc, trace>>

NextMisconfigured ==
    \/ ProjectInitMisconfigured
    \/ \E i \in 1..Len(members) : Invoke(i)
    \/ TeamUpdate
    \/ ProjectUpdate

SpecMisconfigured == Init /\ [][NextMisconfigured]_vars

(***************************** Team.check_finished ************************)

\* a call of Team.check_finished(member_name) between two operations:
\* fn_in holds the call, fn_out the string returned
TeamCheckFinished ==
    /\ phase = "ready"
    /\ \E i \in 1..Len(members) :
          /\ fn_in' = [kind |-> "Team.check_finished",
                       member_name |-> members[i].name]
          /\ fn_out' = [kind |-> "str",
                        value |-> team_check_finished(members,
                                                      members[i].name)]
    /\ UNCHANGED <<cfg, phase, members, team, project, calls, exc, last_op,
                   n_ok, n_intro, graph, pc, trace>>

NextCheckFinished ==
    \/ Next
    \/ TeamCheckFinished

SpecCheckFinished == Init /\ [][NextCheckFinished]_vars

(***************************** member lists ********************************)

\* Team configurations with any list of catalog names as members: nothing
\* in TEAMS or in Team.__init__ keeps a name from being listed twice
\* (TEAMS["research"] lists "prompt_engineer" twice).
ListedConfigs ==
    {[members |-> q, entry |-> q[1], finish |-> q[Len(q)], edge_order |-> q] :
        q \in {r \in SeqsUpTo(ChainNames, MaxListed) : Len(r) > 0}}

InitListed ==
    /\ cfg \in ListedConfigs
    /\ phase = "new"
    /\ members = <<>>
    /\ team = NewTeam
    /\ project = NewProject
    /\ calls = 0
    /\ exc = "none"
    /\ last_op = NoOp
    /\ n_ok = <<>>
    /\ n_intro = 0
    /\ graph = NoGraph
    /\ pc = Idle
    /\ trace = <<>>
    /\ fn_in = NoCall
    /\ fn_out = NoCall

NextListed ==
    \/ ProjectInit
    \/ TeamUpdate
    \/ ProjectUpdate
    \/ TeamRequestIntroductions
    \/ ProjectRequestIntroductions

SpecListed == InitListed /\ [][NextListed]_vars

(***************************** Task and Log ********************************)

Objectives == {"objective", "new_objective"}
Assignees == {"task_manager", "responder", "None"}
Descriptions == {"event_description"}

\* Task.__init__
NewTask(objective, assignee) ==
    [priority |-> 1, assignee |-> assignee, finished |-> FALSE,
     objective |-> objective,
     log |-> LogAdd(NewLog, "Task", <<"objective created", objective>>)]

\* Task.update_objective
update_objective(task, new_objective) ==
    [task EXCEPT !.objective = new_objective,
                 !.log = LogAdd(@, "Task",
                                <<"objective changed", new_objective>>)]

\* Task.assign
assign(task, assignee) ==
    [task EXCEPT !.assignee = assignee,
                 !.log = LogAdd(@, "Task", <<"assignee changed", assignee>>)]

\* Task.log_event
log_event(task, event_description) ==
    [task EXCEPT !.log = LogAdd(@, "Task", <<event_description>>)]

\* Task.prioritize
prioritize(task) ==
    [task EXCEPT !.priority = 0,
                 !.log = LogAdd(@, "Task", <<"task prioritized">>)]

\* set_finished leaving the log as it is
set_finished_unlogged(task) ==
    [task EXCEPT !.priority = 1, !.finished = TRUE]

\* Task.set_finished
set_finished(task) ==
    [task EXCEPT !.priority = 1, !.finished = TRUE,
                 !.log = LogAdd(@, "Task", <<"task finished">>)]

\* fn_out is the task, fn_in the latest call of one of its methods
InitTask ==
    /\ Apart("task")
    /\ fn_in = [kind |-> "Task"]
    /\ \E objective \in Objectives, assignee \in Assignees :
          fn_out = NewTask(objective, assignee)

TaskCall(call, task) ==
    /\ phase = "task"
    /\ Len(fn_out.log.history) < MaxLog
    /\ fn_in' = call
    /\ fn_out' = task
    /\ Untouched

UpdateObjective ==
    \E new_objective \in Objectives :
        TaskCall([kind |-> "update_objective"],
                 update_objective(fn_out, new_objective))

Assign ==
    \E assignee \in Assignees :
        TaskCall([kind |-> "assign"], assign(fn_out, assignee))

LogEvent ==
    \E event_description \in Descriptions :
        TaskCall([kind |-> "log_event"], log_event(fn_out, event_description))

Prioritize == TaskCall([kind |-> "prioritize"], prioritize(fn_out))

SetFinished == TaskCall([kind |-> "set_finished"], set_finished(fn_out))

NextTask ==
    \/ UpdateObjective
    \/ Assign
    \/ LogEvent
    \/ Prioritize
    \/ SetFinished

SpecTask == InitTask /\ [][NextTask]_vars

(***************************** MessageLog **********************************)

\* arguments of add_message: text, parsed responses, and the empty ones
MessageValues ==
    {None, EmptyText, EmptyDict, RawContent(1),
     [kind |-> "dict_pass", id |-> 1, src |-> "content"]}

\* fn_out is the MessageLog, fn_in the latest call of add_message
InitMessageLog ==
    /\ Apart("messages")
    /\ fn_in = [kind |-> "MessageLog", message |-> None]
    /\ fn_out = NewMessageLog

AddMessageCall ==
    /\ phase = "messages"
    /\ Len(fn_out.history) < MaxMessages
    /\ \E m \in MessageValues :
          /\ fn_in' = [kind |-> "add_message", message |-> m]
          /\ fn_out' = AddMessage(fn_out, m)
    /\ Untouched

NextMessageLog == AddMessageCall

SpecMessageLog == InitMessageLog /\ [][NextMessageLog]_vars

(***************************** null responses ******************************)

\* a response that parse_agent_response turns into None: a schema-shaped
\* object whose properties.response has no description
NullResponse == Content(TRUE, TRUE, "None", "object", "no_description")

\* invoke() answered by such a response
InvokeNull(i) ==
    /\ phase = "ready"
    /\ \E s \in {invoke(State, i, NullResponse)} :
          /\ Commit(s, [op |-> "invoke", agent |-> i])
          /\ n_ok' = [n_ok EXCEPT ![i] =
                         IF s.exc = "none" /\ @ < 2 THEN @ + 1 ELSE @]
    /\ UNCHANGED <<fn_in, fn_out, cfg, phase, n_intro, graph, pc, trace>>

NextNull ==
    \/ Next
    \/ \E i \in 1..Len(members) : InvokeNull(i)

SpecNull == Init /\ [][NextNull]_vars

(***************************** properties **********************************)
Agents == 1..Len(members)
InvokeOf(i) == [op |-> "invoke", agent |-> i]
MostRecent(log) == log.history[Len(log.history)].message
HasPassEntry(log) ==
    \E k \in 1..Len(log.history) : log.history[k].message.kind = "dict_pass"
IsPrefix(p, q) == Len(p) <= Len(q) /\ \A k \in 1..Len(p) : p[k] = q[k]
NodeNames(q) == [k \in 1..Len(q) |-> <<q[k]>>]

\* C1: an agent that needs no review (auto-created reviewers included) is
\* finished after its first successful invoke(), and its final_answer is the
\* message of the most recent entry of its outputs log.
C1_UnreviewedFinishedByFirstInvoke ==
    \A i \in Agents :
        (/\ last_op = InvokeOf(i) /\ exc = "none" /\ n_ok[i] = 1
         /\ ~members[i].needs_review)
        => /\ members[i].finished
           /\ members[i].final_answer = MostRecent(members[i].outputs)

C1_Witness ==
    \E i \in Agents :
        /\ last_op = InvokeOf(i) /\ exc = "none" /\ n_ok[i] = 1
        /\ ~members[i].needs_review /\ IsReviewerName(members[i].name)
        /\ members[i].final_answer.id = calls /\ calls > 0

\* C2: a reviewed agent is not finished while its inputs hold no entry with
\* pass_review = true; an invoke() that finds the most recent inputs entry
\* with pass_review = true sets finished, copies the latest outputs message
\* into final_answer and issues no model call.
C2_ReviewedLatchesOnPass ==
    [][\A i \in Agents :
          (Len(members') = Len(members) /\ members[i].needs_review)
          => /\ members'[i].finished => HasPassEntry(members'[i].inputs)
             /\ (/\ last_op' = InvokeOf(i)
                 /\ Len(members[i].inputs.history) > 0
                 /\ MostRecent(members[i].inputs).kind = "dict_pass")
                => /\ members'[i].finished
                   /\ members'[i].final_answer = MostRecent(members[i].outputs)
                   /\ members'[i].outputs = members[i].outputs
                   /\ calls' = calls]_vars

C2_Witness ==
    \E i \in Agents :
        /\ members[i].needs_review /\ members[i].finished
        /\ last_op = InvokeOf(i) /\ exc = "none"
        /\ members[i].final_answer.id > 0
        /\ Len(team.members_finished) = 1

C4_FinishedIsLatch ==
    [][\A i \in Agents :
          (Len(members') = Len(members) /\ members[i].finished)
          => members'[i].finished]_vars

C4_Witness ==
    \E i \in Agents :
        /\ members[i].finished /\ n_ok[i] = 2 /\ last_op = InvokeOf(i)
        /\ n_intro > 0

\* C5: once an agent's final_answer is non-null, no operation changes it.
C5_FinalAnswerImmutable ==
    [][\A i \in Agents :
          (Len(members') = Len(members) /\ members[i].final_answer # None)
          => members'[i].final_answer = members[i].final_answer]_vars

\* C6: one-member reviewed team (entry = finish = A): the first invocation
\* of A produces output and leaves A unfinished; after a reviewer response
\* with pass_review = false control is back at A; a run that has terminated
\* did so at A_reviewer with A latched finished.
OneReviewedMember == Len(cfg.members) = 1 /\ AGENTS[cfg.members[1]]

C6_ReviewRetryScenario ==
    (OneReviewedMember /\ phase = "running" /\ exc = "none")
    => /\ trace = <<members[1].name>>
          => /\ ~members[1].finished
             /\ MostRecent(members[1].outputs).id = 1
       /\ (/\ Len(trace) >= 2
           /\ trace[Len(trace)] = members[2].name
           /\ MostRecent(members[2].outputs).kind = "dict_fail")
          => pc = members[1].name
       /\ pc = END
          => /\ members[1].finished
             /\ trace[Len(trace)] = members[2].name

\* C7: while the reviewer of a reviewed member has returned no verdict with
\* pass_review = true, the run does not reach the terminal node.
C7_NoPassNoTermination ==
    (/\ phase = "running"
     /\ \E i \in Agents :
           /\ members[i].needs_review
           /\ \A j \in Agents :
                 members[j].name = ReviewerName(members[i].name)
                 => ~\E k \in 1..Len(members[j].outputs.history) :
                        members[j].outputs.history[k].message.kind = "dict_pass")
    => pc # END

\* C8: a chain of members that need no review is run in edge_order, each
\* member invoked once with one model call; the run is always at the member
\* that follows the ones already invoked, so it terminates after the last.
AllUnreviewed == \A k \in 1..Len(cfg.members) : ~AGENTS[cfg.members[k]]

C8_UnreviewedChain ==
    (AllUnreviewed /\ phase = "running")
    => /\ IsPrefix(trace, NodeNames(cfg.edge_order))
       /\ calls = Len(trace)
       /\ pc = END => trace = NodeNames(cfg.edge_order)
       /\ (pc # END /\ exc = "none")
          => /\ Len(trace) < Len(cfg.edge_order)
             /\ pc = <<cfg.edge_order[Len(trace) + 1]>>

C8_Witness ==
    /\ AllUnreviewed /\ Len(cfg.edge_order) = 2 /\ pc = END /\ calls = 2
    /\ trace = NodeNames(cfg.edge_order)

\* C9: edges derived from edge_order. A reviewed member M has a conditional
\* edge (finished: next member N, else M_reviewer) and no unconditional one;
\* M_reviewer has an unconditional edge to N unless M is the finish member,
\* whose reviewer only leads to END; a member that needs no review has the
\* single unconditional edge to N (next to the finish-point edge).
EdgesFrom(n) == {e \in graph.edges : e[1] = n}

TerminalNode ==
    LET F == members[get_member_index(members, <<cfg.finish>>)]
    IN  IF F.needs_review THEN ReviewerName(F.name) ELSE F.name

UpdateReturned ==
    \/ last_op.op \in {"Team.update", "Project.update"}
    \/ last_op.op = "invoke" /\ exc = "none"

IsGreeting(m) == m \in {TeamGreeting, ProjectGreeting}

C11_ReviewRouting ==
    UpdateReturned =>
    \A i, j \in Agents :
        (/\ members[i].needs_review
         /\ members[j].name = ReviewerName(members[i].name)
         /\ Len(members[j].outputs.history) > 0
         /\ ~IsGreeting(MostRecent(members[j].outputs)))
        => /\ Len(members[i].inputs.history) > 0
           /\ MostRecent(members[i].inputs) = MostRecent(members[j].outputs)

C11_Witness ==
    /\ last_op.op = "Team.update"
    /\ \E i, j \in Agents :
          /\ members[i].needs_review
          /\ members[j].name = ReviewerName(members[i].name)
          /\ MostRecent(members[j].outputs).kind = "dict_fail"
          /\ MostRecent(members[i].inputs) = MostRecent(members[j].outputs)
          /\ Len(members[i].inputs.history) >= 3

\* C12: assemble_team keeps the configured order; a member whose config has
\* needs_review = true is immediately followed by one agent <member>_reviewer
\* built from the "reviewer" config (needs_review = false), a member with
\* needs_review = false by no reviewer, and no reviewer has a reviewer.
ReviewedBefore(k) == Cardinality({m \in 1..(k - 1) : AGENTS[cfg.members[m]]})
Position(k) == k + ReviewedBefore(k)

C12_AssembleTeam ==
    phase # "new" =>
    /\ Len(members) = Position(Len(cfg.members) + 1) - 1
    /\ \A k \in 1..Len(cfg.members) :
          LET p == Position(k)
              name == cfg.members[k]
          IN  /\ members[p].name = <<name>>
              /\ members[p].config = name
              /\ members[p].needs_review = AGENTS[name]
              /\ IF AGENTS[name]
                 THEN /\ members[p + 1].name = <<name, "_reviewer">>
                      /\ members[p + 1].config = "reviewer"
                      /\ ~members[p + 1].needs_review
                      /\ Position(k + 1) = p + 2
                 ELSE Position(k + 1) = p + 1
    /\ \A i, j \in Agents :
          IsReviewerName(members[i].name)
          => members[j].name # ReviewerName(members[i].name)

C12_Witness ==
    /\ phase # "new" /\ Len(cfg.members) = 2 /\ Len(members) = 3
    /\ AGENTS[cfg.members[1]] /\ ~AGENTS[cfg.members[2]]
    /\ members[2].config = "reviewer" /\ members[3].name = <<cfg.members[2]>>

\* C13: the aggregate views only grow. No invoke(), Team.update() or
\* Project.update() removes a key from Team.outputs.history,
\* Team.outputs.last, Team.inputs.history, Team.inputs.last or
\* Team.final_answers, or an element from Team.members_finished.
C13_ViewsOnlyGrow ==
    [][/\ team.outputs.history \subseteq team'.outputs.history
       /\ DOMAIN team.outputs.last \subseteq DOMAIN team'.outputs.last
       /\ team.inputs.history \subseteq team'.inputs.history
       /\ DOMAIN team.inputs.last \subseteq DOMAIN team'.inputs.last
       /\ DOMAIN team.final_answers \subseteq DOMAIN team'.final_answers
       /\ IsPrefix(team.members_finished, team'.members_finished)]_vars

C13_Witness ==
    /\ Cardinality(team.outputs.history) = 2
    /\ Cardinality(DOMAIN team.outputs.last) = 2
    /\ Cardinality(team.inputs.history) = 2
    /\ Cardinality(DOMAIN team.inputs.last) = 2
    /\ Cardinality(DOMAIN team.final_answers) = 2
    /\ Len(team.members_finished) = 2
    /\ last_op.op = "invoke"

\* C14: round trip of the final answer. Whenever Team.final_answers[name] is
\* present it equals the member's final_answer, which is the message of the
\* entry most recently appended to the member's outputs; once
\* Project.update() has returned the same value is at
\* Project.final_answers[team name][name].
ProjectUpdateReturned ==
    \/ last_op.op \in {"Project", "Project.update"}
    \/ last_op.op = "invoke" /\ exc = "none"

\* Project.final_answers[team.name] is the Team.final_answers dict itself
ProjectFinalAnswers == [n \in project.final_answers |-> team.final_answers]

C15_ProjectUpdate ==
    ProjectUpdateReturned =>
    /\ team.inputs.history # {} => team.name \in project.inputs.history
    /\ DOMAIN team.inputs.last # {} => team.name \in project.inputs.last
    /\ team.outputs.history # {} => team.name \in project.outputs.history
    /\ DOMAIN team.outputs.last # {} => team.name \in project.outputs.last
    /\ DOMAIN team.final_answers # {}
       => /\ Has(ProjectFinalAnswers, team.name)
          /\ ProjectFinalAnswers[team.name] = team.final_answers
    /\ team.project
    /\ \A i \in Agents : members[i].project

C15_Witness ==
    /\ last_op.op = "Project.update"
    /\ team.name \in project.inputs.history
    /\ team.name \in project.inputs.last
    /\ team.name \in project.outputs.history
    /\ team.name \in project.outputs.last
    /\ team.name \in project.final_answers
    /\ Cardinality(DOMAIN team.final_answers) = 2
    /\ \A i \in Agents : members[i].project

\* C16: right after the construction of the Project every member has one
\* outputs entry, its introduction, and an empty inputs log; its teammates
\* are the member names of its team; its team and project back-references
\* are set; nobody is finished, members_finished and all final_answers are
\* empty; the Team and Project outputs views hold every member's greeting.
Constructed == phase = "ready" /\ last_op.op = "Project"

C16_AfterConstruction ==
    Constructed =>
    /\ \A i \in Agents :
          /\ members[i].outputs.history =
                 <<[timestamp |-> 1, message |-> ProjectGreeting]>>
          /\ members[i].outputs.last.message = ProjectGreeting
          /\ members[i].inputs = NewMessageLog
          /\ members[i].teammates = fetch_member_names(members)
          /\ members[i].team /\ members[i].project
          /\ ~members[i].finished
          /\ members[i].final_answer = None
          /\ members[i].name \in team.outputs.history
          /\ Has(team.outputs.last, members[i].name)
          /\ team.outputs.last[members[i].name].message = ProjectGreeting
    /\ team.members_finished = <<>>
    /\ team.final_answers = <<>>
    /\ project.final_answers = {}
    /\ team.name \in project.outputs.history
    /\ team.name \in project.outputs.last

C16_Witness ==
    /\ Constructed /\ Len(members) = 4
    /\ Cardinality(DOMAIN team.outputs.last) = 4
    /\ team.name \in project.outputs.last

\* C17: a failing model call is surfaced. An invoke() whose model call
\* stores no message leaves with the error raised, after one call and with
\* the agent not finished; the run stays at that node and takes no further
\* step.
C17_ModelFailureSurfaces ==
    [][phase = "running" =>
          LET i == get_member_index(members, pc)
          IN  /\ exc = "none"
              /\ calls' \in {calls, calls + 1}
              /\ (calls' = calls + 1 /\ members'[i].outputs = members[i].outputs)
                 => /\ exc' = "ModelError"
                    /\ pc' = pc
                    /\ members'[i].finished = members[i].finished
                    /\ members'[i].final_answer = members[i].final_answer]_vars

C17_Witness ==
    /\ phase = "running" /\ exc = "ModelError" /\ calls = 2
    /\ Len(trace) = 2 /\ pc = trace[2]
    /\ ~members[get_member_index(members, pc)].finished

\* C18: a missing pass_review never raises. An invoke() of an agent whose
\* latest inputs entry is absent, a structured message without pass_review
\* or a plain-text message raises no error on that entry and does not latch
\* a reviewed agent as finished.
C18_MissingPassReviewNeverRaises ==
    [][\A i \in Agents :
          (/\ Len(members') = Len(members)
           /\ last_op' = InvokeOf(i)
           /\ \/ Len(members[i].inputs.history) = 0
              \/ MostRecent(members[i].inputs).kind \in {"str", "dict_nokey"})
          => /\ exc' # "TypeError"
             /\ (members[i].needs_review /\ ~members[i].finished)
                => ~members'[i].finished]_vars

\* C19: submission fetch. An invoke() of an unfinished reviewer that
\* check_finished neither latches nor stops goes on to the model call with
\* the base member's latest output appended to the reviewer's inputs; when
\* the base member has no output in the Team view nothing is appended, no
\* KeyError leaves invoke() and the model is called all the same.
BaseOf(j) == get_member_index(members, StripReviewer(members[j].name))

C19_SubmissionFetch ==
    [][\A j \in Agents :
          (/\ Len(members') = Len(members)
           /\ last_op' = InvokeOf(j)
           /\ IsReviewerName(members[j].name)
           /\ ~members[j].finished
           /\ members[j].project
           /\ \/ Len(members[j].inputs.history) = 0
              \/ MostRecent(members[j].inputs).kind \in
                     {"dict_fail", "dict_nokey"})
          => /\ calls' = calls + 1
             /\ exc' \in {"none", "ModelError"}
             /\ IF Len(members[BaseOf(j)].outputs.history) > 0
                THEN members'[j].inputs.history =
                         Append(members[j].inputs.history,
                             [timestamp |-> Len(members[j].inputs.history) + 1,
                              message |-> MostRecent(members[BaseOf(j)].outputs)])
                ELSE members'[j].inputs = members[j].inputs]_vars

C19_Witness ==
    \E j \in Agents :
        /\ last_op = InvokeOf(j) /\ exc = "none" /\ calls = 1
        /\ IsReviewerName(members[j].name)
        /\ Len(members[j].outputs.history) = 1
        /\ Len(members[BaseOf(j)].outputs.history) = 0
        /\ members[j].inputs = NewMessageLog

\* C20: response parsing. For the json_object format the message is the
\* top-level response field when the content is a JSON object that has one,
\* otherwise the properties.response.description string when the content is
\* schema-shaped, otherwise the raw content; for any other format and for
\* content that is not valid JSON it is the raw content.
HasResponseField(c) == c.json /\ c.object /\ c.response # "None"

SchemaShaped(c) ==
    /\ c.json /\ c.object
    /\ c.type \in {"string", "object"}
    /\ c.properties = "description"

C20_ResponseParsing ==
    fn_out # NoCall =>
    LET c == fn_in.content
    IN  IF fn_in.expected_response_type # "json_object" THEN fn_out = RawContent(1)
        ELSE IF HasResponseField(c)
        THEN fn_out = [kind |-> c.response, id |-> 1, src |-> "response"]
        ELSE IF SchemaShaped(c)
        THEN fn_out = [kind |-> "str", id |-> 1, src |-> "description"]
        ELSE fn_out = RawContent(1)


\* C21: prompt parameter binding. When every entry of prompt_params
\* resolves, each is bound under its name with "." replaced by "_": the
\* literal "None" for an empty string, list or mapping and for null, the
\* resolved value itself for any other value of whatever type; and the
\* prompt carries the bound value at each placeholder of the template.
AllResolve ==
    \A k \in 1..Len(fn_in.prompt_params) :
        fn_in.env[fn_in.prompt_params[k]] # Unresolved

IsEmptyValue(v) ==
    v.empty /\ v.type \in {"str", "list", "dict", "NoneType"}

ExpectedBinding(a) ==
    IF IsEmptyValue(fn_in.env[a]) THEN NoneLiteral ELSE fn_in.env[a]

C21_PromptBinding ==
    (/\ phase = "format_prompt" /\ fn_out # NoCall /\ AllResolve
     /\ fn_in.template \subseteq
            {strip_self_refs(fn_in.prompt_params[k]) :
                k \in 1..Len(fn_in.prompt_params)})
    => /\ fn_out.exc = "none"
       /\ \A k \in 1..Len(fn_in.prompt_params) :
             LET a == fn_in.prompt_params[k]
                 name == [j \in 1..Len(a) |-> IF a[j] = "." THEN "_" ELSE a[j]]
             IN  /\ Has(fn_out.vals, name)
                 /\ fn_out.vals[name] = ExpectedBinding(a)
                 /\ name \in fn_in.template
                    => fn_out.prompt[name] = ExpectedBinding(a)


\* C22: configuration errors are fatal and precede the model call. An
\* invoke() of an agent whose prompt_params has an entry that does not
\* resolve, or whose template has a placeholder without bound value, raises,
\* issues no model call and appends nothing to the agent's outputs.
Misconfigured(i) ==
    /\ Len(members') = Len(members)
    /\ last_op' = InvokeOf(i)
    /\ members[i].prompt_exc # "none"

C22_ConfigurationErrorsAreFatal ==
    [][\A i \in Agents :
          Misconfigured(i)
          => /\ exc' # "none"
             /\ calls' = calls
             /\ members'[i].outputs = members[i].outputs]_vars

\* C22 as amended: the same, for an invoke() that gets past check_finished;
\* an invoke() of an agent that is finished, or that latches on a passing
\* verdict, returns before the prompt is rendered and raises nothing.
RendersPrompt(i) ==
    /\ ~members[i].finished
    /\ members[i].project
    /\ \/ Len(members[i].inputs.history) = 0
       \/ MostRecent(members[i].inputs).kind \in {"dict_fail", "dict_nokey"}

C22_ConfigurationErrorsAreFatalUnlessFinished ==
    [][\A i \in Agents :
          Misconfigured(i)
          => /\ calls' = calls
             /\ members'[i].outputs = members[i].outputs
             /\ exc' # "none" \/ members'[i].finished
             /\ RendersPrompt(i) => /\ exc' = members[i].prompt_exc
                                    /\ ~members'[i].finished]_vars

C22_Witness ==
    \E i \in Agents :
        /\ last_op = InvokeOf(i)
        /\ members[i].prompt_exc = "AttributeError"
        /\ exc = "AttributeError"
        /\ calls = 1
        /\ Len(members[i].outputs.history) = 1
        /\ Len(members[i].inputs.history) = 1


\* C23: Team.check_finished(member_name), for every member name of the team
\* and every reachable state, returns "True" exactly when the member with
\* that name has its finished latch set and "False" otherwise, and changes
\* no state.
C23_TeamCheckFinished ==
    [][<<fn_in, fn_out>>' # <<fn_in, fn_out>>
       => /\ fn_in'.kind = "Team.check_finished"
          /\ <<members, team, project, calls, exc>>' =
                <<members, team, project, calls, exc>>
          /\ \A i \in Agents :
                members[i].name = fn_in'.member_name
                => fn_out'.value =
                      (IF members[i].finished THEN "True" ELSE "False")]_vars

C23_Witness ==
    /\ fn_in # NoCall
    /\ fn_out.value = "True"
    /\ \E i \in Agents :
          /\ members[i].name = fn_in.member_name
          /\ members[i].finished
          /\ members[i].needs_review


\* C24: agent names are unique within a team. After assemble_team, for every
\* configured member list, no two members of the team (base members and
\* auto-created reviewers together) have the same name.
C24_UniqueNames ==
    phase = "ready" =>
    \A i, j \in Agents : i # j => members[i].name # members[j].name


\* C25: every Task mutation is logged. Each call of update_objective,
\* assign, prioritize or set_finished appends exactly one Event to the
\* task's log (the log grows by one and its earlier entries are unchanged);
\* prioritize sets priority to 0, set_finished sets finished to true, and
\* Task.finished never returns to false.
Mutations == {"update_objective", "assign", "prioritize", "set_finished"}

C25_TaskMutationsLogged ==
    [][/\ fn_in'.kind \in Mutations
          => /\ Len(fn_out'.log.history) = Len(fn_out.log.history) + 1
             /\ IsPrefix(fn_out.log.history, fn_out'.log.history)
       /\ fn_in'.kind = "prioritize" => fn_out'.priority = 0
       /\ fn_in'.kind = "set_finished" => fn_out'.finished
       /\ fn_out.finished => fn_out'.finished]_vars

C25_Witness ==
    /\ phase = "task"
    /\ fn_in.kind = "prioritize"
    /\ fn_out.finished
    /\ fn_out.priority = 0
    /\ fn_out.assignee = "responder"
    /\ fn_out.objective = "new_objective"
    /\ Len(fn_out.log.history) = MaxLog

\* C26: Log is append-only. For every sequence of operations, add()
\* increases the history length by exactly one, no existing history entry
\* is removed, reordered or altered, the history is never empty, and
\* Log.last always equals the final history entry.
C26_LogAppendOnly ==
    /\ [](/\ Len(fn_out.log.history) > 0
          /\ fn_out.log.last = fn_out.log.history[Len(fn_out.log.history)])
    /\ [][/\ Len(fn_out'.log.history) = Len(fn_out.log.history) + 1
          /\ IsPrefix(fn_out.log.history, fn_out'.log.history)]_vars

C26_Witness ==
    /\ phase = "task"
    /\ fn_in.kind = "log_event"
    /\ Len(fn_out.log.history) = MaxLog
    /\ fn_out.log.last = Event("Task", <<"event_description">>, MaxLog - 1)
    /\ fn_out.log.history[1].event = <<"started">>


\* C27: MessageLog cached pointers. After every add_message(m), last is the
\* final history entry and last_message equals m; before any message is
\* added last is empty and last_message is null; history entries are never
\* removed or altered.
LastIsFinalEntry ==
    /\ Len(fn_out.history) = 0
       => fn_out.last = NoEntry /\ fn_out.last_message = None
    /\ Len(fn_out.history) > 0
       => /\ fn_out.last = fn_out.history[Len(fn_out.history)]
          /\ fn_out.last.message = fn_in.message

C27_CachedPointers ==
    /\ [](/\ LastIsFinalEntry
          /\ Len(fn_out.history) > 0 => fn_out.last_message = fn_in.message)
    /\ [][IsPrefix(fn_out.history, fn_out'.history)]_vars

\* C27 as amended: the same, with last_message equal to m unless m is empty
\* (None, "" or {}), and null when it is.
C27_CachedPointersNullable ==
    /\ [](/\ LastIsFinalEntry
          /\ Len(fn_out.history) > 0
             => fn_out.last_message =
                   (IF Falsy(fn_in.message) THEN None ELSE fn_in.message))
    /\ [][/\ IsPrefix(fn_out.history, fn_out'.history)
          /\ Len(fn_out'.history) = Len(fn_out.history) + 1]_vars

C27_Witness ==
    /\ phase = "messages"
    /\ Len(fn_out.history) = 2
    /\ fn_out.history[1].message = RawContent(1)
    /\ fn_in.message = EmptyText
    /\ fn_out.last.message = EmptyText
    /\ fn_out.last_message = None


\* C28: feedback is delivered once per reviewer output. Team.update()
\* appends the reviewer's message to the base member's inputs only when the
\* reviewer has produced that output since the previous update; an update
\* (direct or through Project.update()) that follows an update with no
\* reviewer output in between leaves every member's inputs log unchanged.
C28_FeedbackDeliveredOnce ==
    [][(/\ UpdateReturned
        /\ last_op'.op \in {"Team.update", "Project.update"})
       => \A i \in Agents : members'[i].inputs = members[i].inputs]_vars


\* C29: team views are consistent with members after an update. When
\* Team.update() returns, for every member m with a non-empty inputs log,
\* Team.inputs.history[m.name] is m.inputs.history and Team.inputs.last[m.name]
\* equals m.inputs.last, feedback pushed to m during that same update
\* included; likewise Team.outputs.last[m.name] equals m.outputs.last.
C29_TeamViewsConsistent ==
    UpdateReturned =>
    \A i \in Agents :
        /\ Len(members[i].inputs.history) > 0
           => /\ members[i].name \in team.inputs.history
              /\ Has(team.inputs.last, members[i].name)
              /\ team.inputs.last[members[i].name] = members[i].inputs.last
        /\ Len(members[i].outputs.history) > 0
           => /\ Has(team.outputs.last, members[i].name)
              /\ team.outputs.last[members[i].name] = members[i].outputs.last


\* C30: the graph's conditional-edge predicate agrees with the latch. For
\* every reviewed member M of a team and every state reached between
\* operations, the predicate used on M's conditional edge (M's name is in
\* Team.members_finished) has the same truth value as Team.check_finished(M).
C30_PredicateAgreesWithLatch ==
    \A i \in Agents :
        members[i].needs_review
        => check_member_finished(team, members[i].name) =
              team_check_finished(members, members[i].name)

C30_Witness ==
    /\ phase = "ready"
    /\ \E i \in Agents :
          /\ members[i].needs_review
          /\ members[i].finished
          /\ check_member_finished(team, members[i].name) = "True"
          /\ team_check_finished(members, members[i].name) = "True"
    /\ \E j \in Agents : ~members[j].needs_review /\ members[j].finished


\* C31: one node at a time. For every node of a graph derived from
\* edge_order and every value of the finished predicate there is exactly one
\* successor (a member node or END), so that two agents of the same team are
\* never scheduled in the same step.
PredicateValues == {"True", "False"}

FinishBeforeLast(node) ==
    /\ node = <<cfg.finish>>
    /\ ~AGENTS[cfg.finish]
    /\ cfg.finish # cfg.edge_order[Len(cfg.edge_order)]

C32_StateKeptOnModelFailure ==
    [][\A i \in Agents :
          (/\ Len(members') = Len(members)
           /\ last_op' = InvokeOf(i)
           /\ exc' = "ModelError")
          => /\ members'[i].outputs = members[i].outputs
             /\ members'[i].final_answer = members[i].final_answer
             /\ members'[i].finished = members[i].finished
             /\ team'.members_finished = team.members_finished
             /\ team'.final_answers = team.final_answers
             /\ IsPrefix(members[i].log.history, members'[i].log.history)
             /\ members'[i].log.last =
                   members'[i].log.history[Len(members'[i].log.history)]]_vars

C32_Witness ==
    \E i \in Agents :
        /\ last_op = InvokeOf(i)
        /\ exc = "ModelError"
        /\ calls = 2
        /\ members[i].needs_review
        /\ ~members[i].finished
        /\ Len(members[i].outputs.history) = 2
        /\ members[i].log.last.event = <<"invoked">>
        /\ \E k \in 1..Len(members[i].log.history) :
              members[i].log.history[k].event = <<"responded">>
        /\ Has(team.final_answers, ReviewerName(members[i].name)) = FALSE


\* C33: in every reachable state between operations, for every agent,
\* finished is true if and only if final_answer is non-null.
C33_FinishedIffFinalAnswer ==
    \A i \in Agents : members[i].finished <=> members[i].final_answer # None


\* C34: in every reachable state between operations, the names listed in
\* Team.members_finished are exactly the names of the team members whose
\* finished latch is set: every listed name belongs to a finished member, and
\* every finished member (reviewed, unreviewed or reviewer) is listed.
C34_ListedIffFinished ==
    \A i \in Agents :
        members[i].name \in Range(team.members_finished)
        <=> members[i].finished

\* C35: Team.members_finished never contains the same name twice, in any
\* sequence of invoke() calls, repeated invoke() calls on an agent that is
\* already finished included.
C35_NoNameListedTwice ==
    \A k, l \in 1..Len(team.members_finished) :
        k # l => team.members_finished[k] # team.members_finished[l]


\* C36: a paired reviewer issues at most one model call in any sequence of
\* invoke() calls: its first successful invocation latches it finished, and
\* every later invocation replays that first verdict, adds nothing to its
\* inputs or outputs, and does not look at newer submissions of the base
\* member.
Logged(i, event) ==
    Cardinality({k \in 1..Len(members[i].log.history) :
                    members[i].log.history[k].event = event})

Reviewers == {j \in Agents : IsReviewerName(members[j].name)}

ReplaysVerdict ==
    \A j \in Reviewers :
        (/\ Len(members') = Len(members)
         /\ last_op' = InvokeOf(j)
         /\ members[j].finished)
        => /\ calls' = calls
           /\ members'[j].inputs = members[j].inputs
           /\ members'[j].outputs = members[j].outputs
           /\ members'[j].final_answer = members[j].final_answer
           /\ members'[j].finished

C36_ReviewerCallsOnce ==
    /\ [](\A j \in Reviewers :
             /\ Logged(j, <<"invoked">>) <= 1
             /\ Logged(j, <<"responded">>) = 1 => members[j].finished)
    /\ [][ReplaysVerdict]_vars


\* C37: bounded termination of the compiled graph. For every team whose
\* edge_order lists distinct members, starts at the entry member and ends at
\* the finish member, and for every sequence of reviewer verdicts, a run in
\* which every model call returns terminates, invokes each node at most
\* once, and so issues at most (members + reviewers) model calls.
C37_BoundedTermination ==
    phase = "running" =>
        /\ \A k, l \in 1..Len(trace) : k # l => trace[k] # trace[l]
        /\ Range(trace) \subseteq graph.nodes
        /\ calls <= Len(trace)
        /\ Len(trace) <= Len(members)
        /\ (pc # END /\ exc = "none")
           => /\ pc \in graph.nodes \ Range(trace)
              /\ ENABLED RunStep

C37_Witness ==
    /\ phase = "running" /\ pc = END /\ exc = "none"
    /\ Len(cfg.edge_order) = 2
    /\ \A k \in 1..2 : AGENTS[cfg.edge_order[k]]
    /\ Len(trace) = 4
    /\ calls = 4
    /\ \E j \in Agents :
          /\ IsReviewerName(members[j].name)
          /\ MostRecent(members[j].outputs).kind = "dict_fail"
    /\ \E j \in Agents :
          /\ IsReviewerName(members[j].name)
          /\ MostRecent(members[j].outputs).kind = "dict_pass"


\* C38: a passing review takes effect by the end of the run. In every
\* completed workflow run, each reviewed member whose paired reviewer's
\* verdict has pass_review = true is finished, is listed in
\* Team.members_finished, and has its final answer recorded in
\* Team.final_answers when the run terminates.
C38_PassTakesEffect ==
    (phase = "running" /\ pc = END /\ exc = "none") =>
    \A i, j \in Agents :
        (/\ members[i].needs_review
         /\ members[j].name = ReviewerName(members[i].name)
         /\ Len(members[j].outputs.history) > 0
         /\ MostRecent(members[j].outputs).kind = "dict_pass")
        => /\ members[i].finished
           /\ members[i].name \in Range(team.members_finished)
           /\ Has(team.final_answers, members[i].name)
           /\ team.final_answers[members[i].name] = members[i].final_answer


\* C39: a reviewer reviews the latest submission. Whenever a reviewer issues
\* a model call, the newest entry of its inputs is the message of the base
\* member's most recent outputs entry at that moment, not an earlier
\* submission: the Team and Project views are refreshed before the
\* submission is fetched.
C39_ReviewsLatestSubmission ==
    [][\A j \in Agents :
          (/\ Len(members') = Len(members)
           /\ last_op' = InvokeOf(j)
           /\ IsReviewerName(members[j].name)
           /\ calls' = calls + 1
           /\ Len(members[BaseOf(j)].outputs.history) > 0)
          => /\ members'[BaseOf(j)].outputs = members[BaseOf(j)].outputs
             /\ Len(members'[j].inputs.history) =
                   Len(members[j].inputs.history) + 1
             /\ MostRecent(members'[j].inputs) =
                   MostRecent(members[BaseOf(j)].outputs)]_vars

C39_Witness ==
    \E j \in Agents :
        /\ last_op = InvokeOf(j) /\ exc = "none" /\ calls = 1
        /\ IsReviewerName(members[j].name)
        /\ n_intro > 0
        /\ Len(members[BaseOf(j)].outputs.history) = 2
        /\ MostRecent(members[BaseOf(j)].outputs) = TeamGreeting
        /\ MostRecent(members[j].inputs) = TeamGreeting
        /\ Len(members[j].inputs.history) = 1
        /\ team.outputs.last[members[BaseOf(j)].name].message = TeamGreeting

====
